---- MODULE Spec2Model ----
(***************************************************************************)
(* Model of script_gphoto.py: a watched folder whose media files are       *)
(* admitted through enqueue() into work_q, checked for stability by the    *)
(* single worker thread, uploaded with client.upload, then deleted (on     *)
(* success) or moved to FAILED_FOLDER (on failure).                        *)
(*                                                                         *)
(* Threads: the worker (worker/process_file), the scanning thread          *)
(* (initial_scan run by main, then periodic_rescan), and the observer      *)
(* thread that runs the PhotoHandler callbacks.  External programs create, *)
(* write and remove files in the watched folder.                           *)
(***************************************************************************)
EXTENDS Integers, Sequences, FiniteSets, Bags, TLC

VARIABLES
    names,           \* the file names external programs use in this behaviour
    call,            \* one call of wait_until_stable followed sample by sample
                     \* (specification StableSpec; NoCall in Spec)
    fs,              \* the file system: path -> size, for every existing regular file
    handed,          \* history: the existing files of the watched folder itself for
                     \* which a sink call has been made
    work_q,          \* Queue(): sequence of paths
    in_flight,       \* set()
    in_flight_lock,  \* threading.Lock(): "free" or the thread holding it
    enq,             \* per calling thread: position inside enqueue() and its argument
    wpc,             \* worker thread: position inside worker()/process_file()
    path,            \* worker thread: the dequeued path
    wst,             \* worker thread: locals of wait_until_stable
    attempt,         \* worker thread: index of the delete retry loop
    target,          \* worker thread: local of safe_move_to_failed
    att,             \* history of the current (or last) attempt of the worker
    sinkCalls,       \* bag of paths with a client.upload call in progress
    scan,            \* scanning thread: position inside initial_scan / periodic_rescan
    booted           \* main has finished initial_scan and started observer and rescan thread

vars == <<names, call, fs, handed, work_q, in_flight, in_flight_lock, enq, wpc, path,
          wst, attempt, target, att, sinkCalls, scan, booted>>

(***************************************************************************)
(* Bounds of the model.                                                    *)
(***************************************************************************)
MaxSize == 1       \* file sizes range over 0..MaxSize
MaxTime == 0       \* int(time.time()) reads a value of 1..MaxTime
MaxChecks == 3     \* StableSpec: the argument checks ranges over 1..MaxChecks
MaxSample == 2     \* StableSpec: the sizes sampled range over 0..MaxSample

(***************************************************************************)
(* Paths.  A path is [dir, base]: dir is the sequence of directory names   *)
(* below WATCHED_FOLDER, base is the file name split as splitext splits    *)
(* it, with the "_<timestamp>" suffixes that safe_move_to_failed appends   *)
(* kept as a sequence.                                                     *)
(***************************************************************************)
WATCHED_FOLDER == <<>>
FAILED_FOLDER == WATCHED_FOLDER \o <<"_failed">>

VALID_EXT == {".jpg", ".jpeg", ".png", ".heic", ".mp4"}

\* str.lower() on the extensions that occur in the model
lower(ext) ==
    CASE ext = ".JPG" -> ".jpg"
      [] ext = ".TXT" -> ".txt"
      [] OTHER -> ext

\* the sets of names under which external programs drop files into the
\* watched folder, one set per behaviour
NameSets ==
    { { [stem |-> "a", stamps |-> <<>>, ext |-> ".JPG"] },
      { [stem |-> "n", stamps |-> <<>>, ext |-> ".txt"] } }

join(dir, base) == [dir |-> dir, base |-> base]
basename(p) == p.base
\* os.path.splitext(base): <<name, ext>>, the name keeping its timestamps
splitext(base) == <<[stem |-> base.stem, stamps |-> base.stamps], base.ext>>
\* f"{name}_{int(time.time())}{ext}"
stamped(name, t, ext) == [stem |-> name.stem, stamps |-> Append(name.stamps, t), ext |-> ext]

ExtPaths == { join(WATCHED_FOLDER, n) : n \in names }
NoPath == join(<<>>, [stem |-> "", stamps |-> <<>>, ext |-> ""])

IsPrefix(s, t) == Len(s) <= Len(t) /\ SubSeq(t, 1, Len(s)) = s
UnderDir(p, d) == IsPrefix(d, p.dir)

exists(p) == p \in DOMAIN fs
FsRemove(f, p) == [q \in DOMAIN f \ {p} |-> f[q]]
FsPut(f, p, v) == [q \in DOMAIN f \cup {p} |-> IF q = p THEN v ELSE f[q]]

\* line 69 without the test of the extension
is_media_file_any_ext(p) == exists(p)

\* line 69: os.path.isfile(path) and path.lower().endswith(VALID_EXT)
is_media_file(p) == exists(p) /\ lower(p.base.ext) \in VALID_EXT

Callers == {"worker", "scan", "event"}
EnqIdle == [pc |-> "none", path |-> NoPath]

NoAttempt ==
    [stable |-> "none", sink |-> "none", logs |-> <<>>,
     deleted |-> FALSE, existed |-> FALSE, moved |-> FALSE,
     requeue |-> "none", escaped |-> FALSE]

\* no call of wait_until_stable is followed
NoCall == [checks |-> 0, w |-> [last_size |-> -1, stable_count |-> 0, i |-> 0],
           seen |-> << >>, sleeps |-> 0, ret |-> "none"]

Init ==
    /\ names \in NameSets
    /\ call = NoCall
    /\ fs = << >>
    /\ handed = {}
    /\ work_q = << >>
    /\ in_flight = {}
    /\ in_flight_lock = "free"
    /\ enq = [c \in Callers |-> EnqIdle]
    /\ wpc = "idle"
    /\ path = NoPath
    /\ wst = [last_size |-> -1, stable_count |-> 0, i |-> 0]
    /\ attempt = 0
    /\ target = NoPath
    /\ att = NoAttempt
    /\ sinkCalls = EmptyBag
    /\ scan = [pc |-> "walk", dirs |-> <<WATCHED_FOLDER, FAILED_FOLDER>>, todo |-> {}]
    /\ booted = FALSE

(***************************************************************************)
(* enqueue(path), run by the thread c.                                     *)
(***************************************************************************)
WLocals == <<path, wst, attempt, target>>

\* what the return of enqueue() means for its caller: the worker called it
\* from process_file, which returns next (the finally block of worker())
EnqueueReturn(c, how) ==
    /\ enq' = [enq EXCEPT ![c] = EnqIdle]
    /\ IF c = "worker"
          THEN /\ wpc' = "finally"
               /\ att' = [att EXCEPT !.requeue = how]
          ELSE UNCHANGED <<wpc, att>>

\* line 186, a variant that does not look at the set
already_in_flight_never(p, s) == FALSE

\* line 186: path in in_flight
already_in_flight(p, s) == p \in s

\* lines 183-185 for a media file: with in_flight_lock (acquire, which
\* waits while another thread holds the lock)
EnqueueLock(c, p) ==
    /\ is_media_file(p)
    /\ in_flight_lock = "free"
    /\ in_flight_lock' = c
    /\ enq' = [enq EXCEPT ![c] = [pc |-> "locked", path |-> p]]

\* lines 186-188: the membership test and the add, then the lock is released
EnqueueTest(c) ==
    /\ enq[c].pc = "locked"
    /\ in_flight_lock = c
    /\ in_flight_lock' = "free"
    /\ IF already_in_flight(enq[c].path, in_flight)
          THEN /\ EnqueueReturn(c, "noop")
               /\ UNCHANGED in_flight
          ELSE /\ in_flight' = in_flight \cup {enq[c].path}
               /\ enq' = [enq EXCEPT ![c].pc = "put"]
               /\ UNCHANGED <<wpc, att>>
    /\ UNCHANGED <<names, call, fs, handed, work_q, WLocals, sinkCalls, scan, booted>>

\* line 189: work_q.put(path)
EnqueuePut(c) ==
    /\ enq[c].pc = "put"
    /\ work_q' = Append(work_q, enq[c].path)
    /\ EnqueueReturn(c, "admitted")
    /\ UNCHANGED <<names, call, fs, handed, in_flight, in_flight_lock, WLocals,
                   sinkCalls, scan, booted>>

(***************************************************************************)
(* wait_until_stable(path, checks=3, interval=1.0, min_age=0.0) as called  *)
(* by process_file; with min_age = 0.0 the branch of lines 80-83 is not    *)
(* taken.                                                                  *)
(***************************************************************************)
checks == 3

\* line 93 without the test of the size
same_size_zero(size, last_size) == size = last_size

\* line 93: size == last_size and size > 0
same_size(size, last_size) == size = last_size /\ size > 0

\* line 88 with a budget of checks iterations
budget_checks(chk) == chk

\* line 88: range(checks * 2)
budget(chk) == chk * 2

\* One iteration of the loop of lines 88-101 of a call with checks = chk, on
\* the locals w, given whether the file exists and its size.  The result is
\* <<verdict, locals>> with verdict "true" / "false" (a return) or "loop"
\* (next iteration, after the sleep).  The loop runs range(checks * 2) times
\* and line 103 returns False.
wait_until_stable_checks(chk, w, present, size) ==
    IF ~present THEN <<"false", w>>
    ELSE IF same_size(size, w.last_size)
         THEN IF w.stable_count + 1 >= chk
                 THEN <<"true", [w EXCEPT !.stable_count = @ + 1]>>
                 ELSE IF w.i + 1 >= budget(chk)
                         THEN <<"false", [w EXCEPT !.stable_count = @ + 1, !.i = @ + 1]>>
                         ELSE <<"loop", [w EXCEPT !.stable_count = @ + 1, !.i = @ + 1]>>
         ELSE IF w.i + 1 >= budget(chk)
                 THEN <<"false", [w EXCEPT !.stable_count = 0, !.last_size = size, !.i = @ + 1]>>
                 ELSE <<"loop", [w EXCEPT !.stable_count = 0, !.last_size = size, !.i = @ + 1]>>

\* line 129: wait_until_stable(path, checks=3, interval=1.0, min_age=0.0)
wait_until_stable(w, present, size) == wait_until_stable_checks(checks, w, present, size)

(***************************************************************************)
(* worker() and process_file(path).                                        *)
(***************************************************************************)
\* line 170: path = work_q.get(timeout=1); on Empty the loop just continues
WorkerGet ==
    /\ wpc = "idle"
    /\ work_q # << >>
    /\ path' = Head(work_q)
    /\ work_q' = Tail(work_q)
    /\ wst' = [last_size |-> -1, stable_count |-> 0, i |-> 0]
    /\ attempt' = 0
    /\ target' = NoPath
    /\ att' = NoAttempt
    /\ wpc' = "stable"
    /\ UNCHANGED <<names, call, fs, handed, in_flight, in_flight_lock, enq, sinkCalls, scan, booted>>

\* line 129 with a variant that uploads whatever the verdict
after_stable_always(verdict) == "upload"

\* line 129: if not wait_until_stable(...): requeue, else go on to the upload
after_stable(verdict) == IF verdict = "true" THEN "upload" ELSE "requeue"

\* lines 89-101: one sample of wait_until_stable; on a verdict, lines 129-136
\* (the locals of wait_until_stable end with its return: they take their
\* initial values)
StableSample ==
    /\ wpc = "stable"
    /\ LET r == wait_until_stable(wst, exists(path), IF exists(path) THEN fs[path] ELSE 0)
       IN /\ IF r[1] = "loop"
                THEN /\ wst' = r[2]
                     /\ UNCHANGED <<wpc, att, enq>>
                ELSE /\ wst' = [last_size |-> -1, stable_count |-> 0, i |-> 0]
                     /\ wpc' = after_stable(r[1])
                     /\ att' = [att EXCEPT !.stable = IF r[1] = "true" THEN "yes" ELSE "no"]
                     /\ UNCHANGED enq
    /\ UNCHANGED <<names, call, fs, handed, work_q, in_flight, in_flight_lock, path, attempt,
                   target, sinkCalls, scan, booted>>

\* lines 131-134: sleep(1), then enqueue(path) called by the worker itself:
\* it returns at line 184, or goes on to take the lock
Requeue ==
    /\ wpc = "requeue"
    /\ IF is_media_file(path)
          THEN /\ EnqueueLock("worker", path)
               /\ wpc' = "requeueing"
               /\ UNCHANGED att
          ELSE /\ wpc' = "finally"
               /\ att' = [att EXCEPT !.requeue = "rejected"]
               /\ UNCHANGED <<enq, in_flight_lock>>
    /\ UNCHANGED <<names, call, fs, handed, work_q, in_flight, WLocals, sinkCalls, scan, booted>>

\* outcomes of one append to a log file (lines 54-56, 63-65): the line is
\* written, or open()/write() raises
LogOutcomes == {"written", "raise"}

UnchangedByWorkerStep == <<names, call, work_q, in_flight, in_flight_lock, enq, scan, booted>>

\* line 138, a variant that starts the upload and does not wait for it
client_upload_call_async ==
    /\ wpc = "upload"
    /\ sinkCalls' = sinkCalls (+) SetToBag({path})
    /\ handed' = handed \cup {p \in {path} : exists(p) /\ p.dir = WATCHED_FOLDER}
    /\ att' = [att EXCEPT !.sink = "running"]
    /\ wpc' = "finally"
    /\ UNCHANGED <<fs, WLocals>>
    /\ UNCHANGED UnchangedByWorkerStep

\* line 138: client.upload(target=path, ...) is called
client_upload_call ==
    /\ wpc = "upload"
    /\ sinkCalls' = sinkCalls (+) SetToBag({path})
    /\ handed' = handed \cup {p \in {path} : exists(p) /\ p.dir = WATCHED_FOLDER}
    /\ att' = [att EXCEPT !.sink = "running"]
    /\ wpc' = "uploading"
    /\ UNCHANGED <<fs, WLocals>>
    /\ UNCHANGED UnchangedByWorkerStep

\* lines 138-145 with a log_success whose exception is swallowed: the delete
\* loop is entered without the OK record
client_upload_return_unlogged ==
    /\ wpc = "uploading"
    /\ sinkCalls' = sinkCalls (-) SetToBag({path})
    /\ \E up \in {"token", "raise"}, lg \in LogOutcomes :
          CASE up = "raise" ->
                 /\ att' = [att EXCEPT !.sink = "fail"]
                 /\ wpc' = "handler"
            [] up = "token" /\ lg = "written" ->
                 /\ att' = [att EXCEPT !.sink = "ok", !.logs = Append(@, "OK")]
                 /\ wpc' = "remove"
            [] OTHER ->
                 /\ att' = [att EXCEPT !.sink = "ok"]
                 /\ wpc' = "remove"
    /\ UNCHANGED <<fs, handed, WLocals>>
    /\ UNCHANGED UnchangedByWorkerStep

\* lines 138-145: client.upload raises (handler of line 158), or returns a
\* token and log_success(path, output) writes the OK record, or raises
client_upload_return ==
    /\ wpc = "uploading"
    /\ sinkCalls' = sinkCalls (-) SetToBag({path})
    /\ \E up \in {"token", "raise"}, lg \in LogOutcomes :
          CASE up = "raise" ->
                 /\ att' = [att EXCEPT !.sink = "fail"]
                 /\ wpc' = "handler"
            [] up = "token" /\ lg = "written" ->
                 /\ att' = [att EXCEPT !.sink = "ok", !.logs = Append(@, "OK")]
                 /\ wpc' = "remove"
            [] OTHER ->
                 /\ att' = [att EXCEPT !.sink = "ok"]
                 /\ wpc' = "handler"
    /\ UNCHANGED <<fs, handed, WLocals>>
    /\ UNCHANGED UnchangedByWorkerStep

max_retries == 5

\* lines 146-156: one os.remove(path) of the retry loop.  It removes the
\* file; or raises PermissionError: sleep and next attempt, and after
\* max_retries attempts the else branch of the for writes the warning
\* record; or raises another error, FileNotFoundError when the file is
\* gone, which the handler of line 158 catches, as it catches an exception
\* of log_error.  The loop index is not read after the loop.
os_remove ==
    /\ wpc = "remove"
    /\ attempt < max_retries
    /\ \E o \in IF exists(path) THEN {"removed", "PermissionError", "OSError"}
                                ELSE {"FileNotFoundError"},
          lg \in LogOutcomes :
          CASE o = "removed" ->
                 /\ fs' = FsRemove(fs, path)
                 /\ handed' = handed \ {path}
                 /\ att' = [att EXCEPT !.deleted = TRUE]
                 /\ wpc' = "finally"
                 /\ attempt' = 0
            [] o = "PermissionError" /\ attempt + 1 < max_retries ->
                 /\ attempt' = attempt + 1
                 /\ wpc' = "remove"
                 /\ UNCHANGED <<fs, handed, att>>
            [] o = "PermissionError" /\ attempt + 1 >= max_retries /\ lg = "written" ->
                 /\ attempt' = attempt + 1
                 /\ att' = [att EXCEPT !.logs = Append(@, "ERR warn=delete_failed")]
                 /\ wpc' = "finally"
                 /\ UNCHANGED <<fs, handed>>
            [] OTHER ->
                 /\ attempt' = 0
                 /\ wpc' = "handler"
                 /\ UNCHANGED <<fs, handed, att>>
    /\ UNCHANGED <<path, wst, target, sinkCalls>>
    /\ UNCHANGED UnchangedByWorkerStep

(***************************************************************************)
(* safe_move_to_failed(path, reason)                                       *)
(***************************************************************************)
\* lines 110-115: the move target, given the clock reading t
move_target(p, t) ==
    LET base == basename(p)
        plain == join(FAILED_FOLDER, base)
    IN IF exists(plain)
          THEN join(FAILED_FOLDER, stamped(splitext(base)[1], t, splitext(base)[2]))
          ELSE plain

\* int(time.time()) at line 115: a reading of 1..MaxTime later than the
\* timestamps the name carries; when there is none, the reading MaxTime + 1
ClockReadings(p) ==
    LET later == {t \in 1..MaxTime :
                     \A k \in 1..Len(p.base.stamps) : p.base.stamps[k] < t}
    IN IF later = {} THEN {MaxTime + 1} ELSE later

InModel(p) == \A k \in 1..Len(p.base.stamps) : p.base.stamps[k] <= MaxTime

\* lines 158-164 and 110-115: except Exception as e: log_error(path,
\* str(e)), and an exception it raises leaves process_file; then, if
\* os.path.exists(path), safe_move_to_failed(path, str(e)) up to its target
handler ==
    /\ wpc = "handler"
    /\ \E lg \in LogOutcomes, t \in ClockReadings(path) :
          CASE lg = "raise" ->
                 /\ att' = [att EXCEPT !.escaped = TRUE]
                 /\ wpc' = "finally"
                 /\ UNCHANGED target
            [] lg = "written" /\ exists(path) ->
                 /\ att' = [att EXCEPT !.logs = Append(@, "ERR"), !.existed = TRUE]
                 /\ target' = move_target(path, t)
                 /\ wpc' = "move"
            [] OTHER ->
                 /\ att' = [att EXCEPT !.logs = Append(@, "ERR")]
                 /\ wpc' = "finally"
                 /\ UNCHANGED target
    /\ UNCHANGED <<fs, handed, path, wst, attempt, sinkCalls>>
    /\ UNCHANGED UnchangedByWorkerStep

\* line 117 with a copy in the place of the move: the source stays
shutil_copy(f, src, dst) == FsPut(f, dst, f[src])

\* shutil.move(src, dst) on one file system: a rename, which replaces a
\* file that exists at dst
shutil_move(f, src, dst) == FsPut(FsRemove(f, src), dst, f[src])

\* lines 117-124: shutil.move(path, target) moves the file and log_error
\* writes the moved_to record; when the move raises (it does when the file
\* is gone), or when that log_error raises, the handler of line 121 writes
\* the move_failed record, and an exception it raises leaves process_file.
\* Names with a clock reading after MaxTime are outside the model: for them
\* the move raises.
safe_move ==
    /\ wpc = "move"
    /\ \E o \in IF exists(path) /\ InModel(target) THEN {"moved", "raise"} ELSE {"raise"},
          lg1 \in LogOutcomes, lg2 \in LogOutcomes :
          /\ IF o = "moved"
                THEN /\ fs' = shutil_move(fs, path, target)
                     /\ handed' = handed \ {path}
                ELSE UNCHANGED <<fs, handed>>
          /\ att' = [att EXCEPT
                        !.moved = (o = "moved"),
                        !.logs = CASE o = "moved" /\ lg1 = "written" -> Append(@, "ERR moved_to")
                                   [] lg2 = "written" -> Append(@, "ERR move_failed")
                                   [] OTHER -> @,
                        !.escaped = ~(o = "moved" /\ lg1 = "written") /\ lg2 = "raise"]
    /\ wpc' = "finally"
    /\ UNCHANGED <<WLocals, sinkCalls>>
    /\ UNCHANGED UnchangedByWorkerStep

(***************************************************************************)
(* worker(): the finally block of lines 176-179.                           *)
(***************************************************************************)
\* line 177: with in_flight_lock (acquire)
worker_finally ==
    /\ wpc = "finally"
    /\ in_flight_lock = "free"
    /\ in_flight_lock' = "worker"
    /\ wpc' = "release"
    /\ UNCHANGED <<names, call, fs, handed, work_q, in_flight, enq, WLocals, att,
                   sinkCalls, scan, booted>>

\* the locals of the iteration are not read again (line 170 assigns path
\* anew): they take their initial values
WorkerLocalsDead ==
    /\ path' = NoPath
    /\ wst' = [last_size |-> -1, stable_count |-> 0, i |-> 0]
    /\ attempt' = 0
    /\ target' = NoPath
    /\ att' = NoAttempt

\* lines 174-178 without the try/finally: the discard is skipped when
\* process_file raised
worker_release_no_finally ==
    /\ wpc = "release"
    /\ in_flight_lock = "worker"
    /\ in_flight' = IF att.escaped THEN in_flight ELSE in_flight \ {path}
    /\ in_flight_lock' = "free"
    /\ wpc' = IF att.escaped THEN "dead" ELSE "idle"
    /\ WorkerLocalsDead
    /\ UNCHANGED <<names, call, fs, handed, work_q, enq, sinkCalls, scan, booted>>

\* lines 177-178 with a lock that is acquired and not released
worker_release_keep_lock ==
    /\ wpc = "release"
    /\ in_flight_lock = "worker"
    /\ in_flight' = in_flight \ {path}
    /\ in_flight_lock' = "worker"
    /\ wpc' = IF att.escaped THEN "dead" ELSE "idle"
    /\ WorkerLocalsDead
    /\ UNCHANGED <<names, call, fs, handed, work_q, enq, sinkCalls, scan, booted>>

\* lines 177-178 without the discard
worker_release_no_discard ==
    /\ wpc = "release"
    /\ in_flight_lock = "worker"
    /\ in_flight' = in_flight
    /\ in_flight_lock' = "free"
    /\ wpc' = IF att.escaped THEN "dead" ELSE "idle"
    /\ WorkerLocalsDead
    /\ UNCHANGED <<names, call, fs, handed, work_q, enq, sinkCalls, scan, booted>>

\* lines 178-179: in_flight.discard(path), the lock is released, task_done().
\* An exception that left process_file then leaves the while loop: the
\* worker thread ends.
worker_release ==
    /\ wpc = "release"
    /\ in_flight_lock = "worker"
    /\ in_flight' = in_flight \ {path}
    /\ in_flight_lock' = "free"
    /\ wpc' = IF att.escaped THEN "dead" ELSE "idle"
    /\ WorkerLocalsDead
    /\ UNCHANGED <<names, call, fs, handed, work_q, enq, sinkCalls, scan, booted>>

(***************************************************************************)
(* initial_scan() and periodic_rescan(): os.walk(WATCHED_FOLDER) lists     *)
(* the watched folder, then the folders below it, of which there is one,   *)
(* FAILED_FOLDER (created at line 21).                                     *)
(***************************************************************************)
UnchangedByScanStep == <<names, call, fs, handed, work_q, in_flight, wpc, WLocals, att, sinkCalls>>

\* line 213: os.walk yields the next directory with the files it holds now
ScanListDir ==
    /\ scan.pc = "walk"
    /\ enq["scan"].pc = "none"
    /\ scan.todo = {}
    /\ scan.dirs # << >>
    /\ scan' = [scan EXCEPT !.dirs = Tail(@),
                            !.todo = {p \in DOMAIN fs : p.dir = Head(scan.dirs)}]
    /\ UNCHANGED <<enq, booted, in_flight_lock>>
    /\ UNCHANGED UnchangedByScanStep

\* lines 214-217 and 183-185: for f in files: if is_media_file(p):
\* enqueue(p), up to the lock
ScanFile ==
    /\ scan.pc = "walk"
    /\ enq["scan"].pc = "none"
    /\ \E p \in scan.todo :
          /\ scan' = [scan EXCEPT !.todo = @ \ {p}]
          /\ IF is_media_file(p)
                THEN EnqueueLock("scan", p)
                ELSE UNCHANGED <<enq, in_flight_lock>>
    /\ UNCHANGED booted
    /\ UNCHANGED UnchangedByScanStep

\* the walk is over: initial_scan returns.  After the first scan main starts
\* the rescan thread and the observer (lines 236-241).
ScanDone ==
    /\ scan.pc = "walk"
    /\ enq["scan"].pc = "none"
    /\ scan.todo = {}
    /\ scan.dirs = << >>
    /\ scan' = [scan EXCEPT !.pc = "sleep"]
    /\ booted' = TRUE
    /\ UNCHANGED <<enq, in_flight_lock>>
    /\ UNCHANGED UnchangedByScanStep

\* lines 221-224: time.sleep(interval_sec), then initial_scan() again
periodic_rescan ==
    /\ scan.pc = "sleep"
    /\ scan' = [pc |-> "walk", dirs |-> <<WATCHED_FOLDER, FAILED_FOLDER>>, todo |-> {}]
    /\ UNCHANGED <<enq, booted, in_flight_lock>>
    /\ UNCHANGED UnchangedByScanStep

(***************************************************************************)
(* PhotoHandler: the observer thread reports a created, moved or modified  *)
(* file (events of directories return at once and are left out); the       *)
(* path handed to enqueue is src_path, or dest_path for a move.  The       *)
(* observer is recursive and may report any file of the tree.  An event    *)
(* whose path is not a media file returns at line 184 and changes nothing. *)
(***************************************************************************)
EventPaths == DOMAIN fs

PhotoHandler ==
    /\ booted
    /\ enq["event"].pc = "none"
    /\ \E h \in {"on_created", "on_moved", "on_modified"}, p \in EventPaths :
          EnqueueLock("event", p)
    /\ UNCHANGED <<names, call, fs, handed, work_q, in_flight, wpc, WLocals, att, sinkCalls, scan, booted>>

(***************************************************************************)
(* The environment: programs that drop files into the watched folder and   *)
(* write or remove them.                                                   *)
(***************************************************************************)
UnchangedByEnv == <<names, call, work_q, in_flight, in_flight_lock, enq, wpc, WLocals, att,
                    sinkCalls, scan, booted>>

ExtCreate ==
    /\ \E p \in ExtPaths, sz \in 0..MaxSize :
          /\ ~exists(p)
          /\ fs' = FsPut(fs, p, sz)
    /\ UNCHANGED handed
    /\ UNCHANGED UnchangedByEnv

\* a write appends to the file
ExtWrite ==
    /\ \E p \in ExtPaths :
          /\ exists(p)
          /\ fs[p] < MaxSize
          /\ fs' = [fs EXCEPT ![p] = @ + 1]
    /\ UNCHANGED handed
    /\ UNCHANGED UnchangedByEnv

ExtRemove ==
    /\ \E p \in ExtPaths :
          /\ exists(p)
          /\ fs' = FsRemove(fs, p)
          /\ handed' = handed \ {p}
    /\ UNCHANGED UnchangedByEnv

Next ==
    \/ WorkerGet
    \/ StableSample
    \/ Requeue
    \/ \E c \in Callers : EnqueueTest(c)
    \/ \E c \in Callers : EnqueuePut(c)
    \/ client_upload_call
    \/ client_upload_return
    \/ os_remove
    \/ handler
    \/ safe_move
    \/ worker_finally
    \/ worker_release
    \/ ScanListDir
    \/ ScanFile
    \/ ScanDone
    \/ periodic_rescan
    \/ PhotoHandler
    \/ ExtCreate
    \/ ExtWrite
    \/ ExtRemove

Spec == Init /\ [][Next]_vars

(***************************************************************************)
(* Scheduling: every thread that can take a step eventually takes one; a   *)
(* thread waiting for in_flight_lock eventually gets it.  Nothing is       *)
(* assumed of the environment, of the sink or of the log writes.           *)
(***************************************************************************)
WorkerNext ==
    \/ WorkerGet \/ StableSample \/ Requeue
    \/ EnqueueTest("worker") \/ EnqueuePut("worker")
    \/ client_upload_call \/ client_upload_return
    \/ os_remove \/ handler \/ safe_move
    \/ worker_finally \/ worker_release

ScanNext ==
    \/ ScanListDir \/ ScanFile \/ ScanDone \/ periodic_rescan
    \/ EnqueueTest("scan") \/ EnqueuePut("scan")

EventNext == EnqueueTest("event") \/ EnqueuePut("event")

FairSpec == Spec /\ SF_vars(WorkerNext) /\ SF_vars(ScanNext) /\ WF_vars(EventNext)

(***************************************************************************)
(* wait_until_stable(path, checks, interval, min_age=0.0) on its own: one  *)
(* call, for any checks of 1..MaxChecks, against a file that an external   *)
(* program may write or remove between two samples.                        *)
(***************************************************************************)
\* the sample of a file that is missing at line 89 (or whose getsize
\* raises at line 92: the handler of line 104 returns False as well)
Absent == -2
Samples == {Absent} \cup 0..MaxSample

StableInit ==
    /\ call \in { [NoCall EXCEPT !.checks = k] : k \in 1..MaxChecks }
    /\ names = {}
    /\ fs = << >>
    /\ handed = {}
    /\ work_q = << >>
    /\ in_flight = {}
    /\ in_flight_lock = "free"
    /\ enq = [c \in Callers |-> EnqIdle]
    /\ wpc = "idle"
    /\ path = NoPath
    /\ wst = [last_size |-> -1, stable_count |-> 0, i |-> 0]
    /\ attempt = 0
    /\ target = NoPath
    /\ att = NoAttempt
    /\ sinkCalls = EmptyBag
    /\ scan = [pc |-> "sleep", dirs |-> << >>, todo |-> {}]
    /\ booted = FALSE

\* lines 88-103: one iteration of the loop on the sample s; time.sleep is
\* reached when the iteration neither returns True nor finds the file missing
wait_until_stable_sample ==
    /\ call.ret = "none"
    /\ \E s \in Samples :
          LET r == wait_until_stable_checks(call.checks, call.w, s # Absent, s)
          IN call' = [call EXCEPT
                         !.w = r[2],
                         !.seen = Append(@, s),
                         !.sleeps = IF r[1] = "loop" \/ (r[1] = "false" /\ s # Absent)
                                       THEN @ + 1 ELSE @,
                         !.ret = IF r[1] = "loop" THEN "none" ELSE r[1]]
    /\ UNCHANGED <<names, fs, handed, work_q, in_flight, in_flight_lock, enq, wpc,
                   WLocals, att, sinkCalls, scan, booted>>

StableNext == wait_until_stable_sample

StableSpec == StableInit /\ [][StableNext]_vars

(***************************************************************************)
(* Properties.                                                             *)
(***************************************************************************)
InQueue(p, q) == \E i \in 1..Len(q) : q[i] = p
Logged(line) == \E i \in 1..Len(att.logs) : att.logs[i] = line
Handling == wpc \notin {"idle", "dead"}

\* C1: no path under the quarantine directory is ever a candidate: it is
\* not in the in-flight set, not in the work queue, not the argument of an
\* enqueue that passed the media test, and not handled by the worker.
C1_QuarantineNeverCandidate ==
    /\ \A p \in in_flight : ~UnderDir(p, FAILED_FOLDER)
    /\ \A i \in 1..Len(work_q) : ~UnderDir(work_q[i], FAILED_FOLDER)
    /\ \A c \in Callers : enq[c].pc # "none" => ~UnderDir(enq[c].path, FAILED_FOLDER)
    /\ Handling => ~UnderDir(path, FAILED_FOLDER)

\* C2: when the stability check said "not stable" and the file was still a
\* media file when process_file called enqueue, then at the moment the
\* worker releases the path, the path is in the in-flight set and in the
\* work queue.
C2_UnstableIsRequeued ==
    [][ (wpc = "release" /\ wpc' # "release" /\ att.stable = "no"
            /\ att.requeue \in {"noop", "admitted"})
        => (path \in in_flight' /\ InQueue(path, work_q')) ]_vars

\* C3: the work queue never holds two entries for one path, and an enqueue
\* that finds its path in the in-flight set returns leaving the in-flight
\* set and the queue as they are.
C3_OneEntryPerPath ==
    /\ [](\A i, j \in 1..Len(work_q) : work_q[i] = work_q[j] => i = j)
    /\ [][ \A c \in Callers :
              (enq[c].pc = "locked" /\ enq'[c] # enq[c] /\ enq[c].path \in in_flight)
              => (enq'[c].pc = "none" /\ in_flight' = in_flight /\ work_q' = work_q) ]_vars

\* C3 witness: the worker's own requeue found the path in flight and did
\* nothing, while another thread is at the membership test for that path
C3_Witness ==
    /\ wpc = "finally"
    /\ att.requeue = "noop"
    /\ path \in in_flight
    /\ \E c \in {"scan", "event"} : enq[c].pc = "locked" /\ enq[c].path = path

\* the paths external programs may drop files at
WatchedPaths == { join(WATCHED_FOLDER, n) : n \in UNION NameSets }

\* p is a media file of the watched folder with a non-zero size
Settled(p) == is_media_file(p) /\ fs[p] > 0

\* C4: for a media file that from some moment on stays in the watched
\* folder with a non-zero size, a sink call is eventually made.
C4_NoFileDropped ==
    \A p \in WatchedPaths : []([]Settled(p) => <>(p \in handed))

\* C5: the worker thread never ends.
C5_WorkerNeverEnds == wpc # "dead"

\* C6: when process_file ends after a sink call that returned success, the
\* file has been deleted, or max_retries deletes failed, the warning record
\* was written and the file was left where it is.
C6_SuccessImpliesCleanup ==
    (wpc = "finally" /\ att.sink = "ok")
    => \/ att.deleted
       \/ /\ attempt = max_retries
          /\ Logged("ERR warn=delete_failed")
          /\ ~att.moved

\* C7 as claimed: when process_file ends after a sink call that failed and
\* the file existed at line 163, the file is no longer at its path and is
\* under the quarantine directory.
C7_FailureImpliesQuarantined ==
    (wpc = "finally" /\ att.sink = "fail" /\ att.existed)
    => (~exists(path) /\ exists(target) /\ UnderDir(target, FAILED_FOLDER))

\* C7 amended: after a sink call that failed, a file that exists at line 163
\* is handed to safe_move_to_failed, whose target is in the quarantine
\* directory under the file's own or a stamped name; when shutil.move
\* succeeds the file has left its path and is at the target; when
\* shutil.move raises, the file system is as it was and the move_failed
\* record is written, unless that write raises.
C7_FailureMovesOrStays ==
    [][ /\ (wpc = "handler" /\ wpc' # wpc /\ att.sink = "fail" /\ exists(path)
               /\ ~att'.escaped)
           => /\ wpc' = "move"
              /\ UnderDir(target', FAILED_FOLDER)
              /\ target'.base.stem = path.base.stem
              /\ target'.base.ext = path.base.ext
        /\ (wpc = "move" /\ wpc' # wpc /\ att.sink = "fail")
           => \/ /\ att'.moved
                 /\ path \notin DOMAIN fs'
                 /\ target \in DOMAIN fs'
                 /\ fs'[target] = fs[path]
              \/ /\ ~att'.moved
                 /\ fs' = fs
                 /\ \/ att'.escaped
                    \/ att'.logs = Append(att.logs, "ERR move_failed") ]_vars

\* C7 witness: the sink call failed and the file has been moved
C7_Witness ==
    /\ wpc = "finally"
    /\ att.sink = "fail"
    /\ att.existed
    /\ att.moved
    /\ ~exists(path)
    /\ exists(target)

\* C8: no path has more than one sink call in progress.
C8_OneSinkCallPerPath == \A p \in BagToSet(sinkCalls) : CopiesIn(p, sinkCalls) <= 1

\* C8 witness: a sink call is in progress while another thread is inside
\* enqueue for the same path
C8_Witness ==
    /\ wpc = "uploading"
    /\ CopiesIn(path, sinkCalls) = 1
    /\ \E c \in {"scan", "event"} : enq[c].pc = "locked" /\ enq[c].path = path

\* C9: whenever the worker is done with a path, by going back to the queue
\* or by ending, the path is not in the in-flight set.
C9_ReleasedWhateverOutcome ==
    [][ (wpc # wpc' /\ wpc' \in {"idle", "dead"}) => path \notin in_flight' ]_vars

\* C9 witness: the worker thread ended with an exception and the in-flight
\* set is empty
C9_Witness == wpc = "dead" /\ in_flight = {}

\* C10: a sink call is made only in an attempt whose stability check said
\* "stable"; an attempt whose check said "not stable" calls no sink, deletes
\* nothing, moves nothing.
C10_SinkOnlyAfterStable ==
    /\ (att.sink # "none" \/ sinkCalls # EmptyBag) => att.stable = "yes"
    /\ att.stable = "no"
       => /\ att.sink = "none"
          /\ sinkCalls = EmptyBag
          /\ ~att.deleted
          /\ ~att.moved
          /\ wpc \in {"requeue", "requeueing", "finally", "release"}

\* C10 witness: an attempt that found the file not stable has ended
C10_Witness ==
    /\ wpc = "finally"
    /\ att.stable = "no"
    /\ att.requeue = "noop"
    /\ exists(path)

\* the ERR records among the log lines of an attempt
ErrLines(logs) == {k \in 1..Len(logs) : logs[k] # "OK"}

\* C13: an attempt on a stable file whose sink call failed, that found the
\* file at line 163 and moved it to the quarantine directory, has written
\* exactly one ERR record, the one with moved_to=<target>.
C13_OneErrLineWithTarget ==
    (wpc = "finally" /\ att.stable = "yes" /\ att.sink = "fail" /\ att.existed /\ att.moved)
       => /\ Cardinality(ErrLines(att.logs)) = 1
          /\ Logged("ERR moved_to")

AllowListed(p) == lower(p.base.ext) \in VALID_EXT

C15_LockOnlyAroundInFlight ==
    /\ [](/\ in_flight_lock \in {"free"} \cup Callers
          /\ in_flight_lock = "worker" => wpc \in {"requeueing", "release"}
          /\ \A c \in Callers : in_flight_lock = c =>
                (enq[c].pc = "locked" \/ (c = "worker" /\ wpc = "release"))
          /\ wpc \in {"stable", "requeue", "upload", "uploading", "remove", "handler", "move"}
                => in_flight_lock # "worker")
    /\ [][ \A c \in Callers :
              (in_flight_lock = c /\ (enq'[c] # enq[c] \/ (c = "worker" /\ wpc' # wpc)))
                 => in_flight_lock' = "free" ]_vars

\* C15 witness: the worker is in the sink call and a scan or an event
\* callback holds the lock for its own enqueue
C15_Witness ==
    /\ wpc = "uploading"
    /\ in_flight_lock \in {"scan", "event"}

C17_DeleteOnlyAfterOkRecord ==
    /\ [](att.deleted => (att.sink = "ok" /\ Logged("OK")))
    /\ [](att.sink = "fail" => ~att.deleted)
    /\ [][ att' # att =>
              \A q \in DOMAIN fs \ DOMAIN fs' :
                 /\ q = path
                 /\ \/ wpc = "remove" /\ att'.deleted /\ att.sink = "ok" /\ Logged("OK")
                    \/ wpc = "move" /\ att'.moved /\ target \in DOMAIN fs' ]_vars

\* C17 witness: the sink call returned a token, the OK record is written and
\* the file has been deleted
C17_Witness ==
    /\ wpc = "finally"
    /\ att.sink = "ok"
    /\ Logged("OK")
    /\ att.deleted
    /\ ~exists(path)

\* C19: an attempt that has moved the file to the quarantine directory, or
\* has written the ERR record of line 162, is one whose sink call failed.
C19_QuarantineOnlyAfterSinkFailure ==
    (att.moved \/ Logged("ERR")) => att.sink = "fail"

QueueSet(q) == {q[k] : k \in 1..Len(q)}

\* C20: in_flight is the set of the paths that are in work_q, handled by the
\* worker, or between the add and the put of an enqueue.
C20_InFlightExact ==
    in_flight = QueueSet(work_q)
                   \cup (IF Handling THEN {path} ELSE {})
                   \cup {enq[c].path : c \in {d \in Callers : enq[d].pc = "put"}}

\* C20 witness: a file has been handled and quarantined, and with an empty
\* queue, an idle worker and no enqueue in progress in_flight is empty
C20_Witness ==
    /\ in_flight = {}
    /\ work_q = << >>
    /\ wpc = "idle"
    /\ \A c \in Callers : enq[c].pc = "none"
    /\ \E q \in DOMAIN fs : UnderDir(q, FAILED_FOLDER)

(***************************************************************************)
(* Properties of wait_until_stable (specification StableSpec).             *)
(***************************************************************************)
AllZero(seq) == seq # << >> /\ \A k \in 1..Len(seq) : seq[k] = 0
ConstantNonZero(seq) == seq # << >> /\ seq[1] > 0 /\ \A k \in 1..Len(seq) : seq[k] = seq[1]
EverChanging(seq) ==
    \A k \in 1..Len(seq) : seq[k] # Absent /\ (k > 1 => seq[k] # seq[k - 1])
OneChange(seq) ==
    \E j \in 2..Len(seq) :
        /\ seq[1] > 0
        /\ seq[j] > 0
        /\ seq[j] # seq[1]
        /\ \A k \in 1..(j - 1) : seq[k] = seq[1]
        /\ \A k \in j..Len(seq) : seq[k] = seq[j]

\* C11: a call of wait_until_stable whose samples are all of size 0 does not
\* return True, whatever checks is, and a sample of size 0 leaves the count of
\* consecutive equal samples at 0.
C11_ZeroNeverStable ==
    /\ [](AllZero(call.seen) => call.ret # "true")
    /\ [][ call'.seen = Append(call.seen, 0) => call'.w.stable_count = 0 ]_vars

\* C11 witness: checks = 3, six samples of size 0, the call returned False
C11_Witness ==
    /\ call.checks = checks
    /\ AllZero(call.seen)
    /\ Len(call.seen) = 2 * checks
    /\ call.ret = "false"

\* C12: with the same non-zero size at every sample the call returns True at
\* sample checks + 1, that is after checks sleeps at most; with a size that
\* differs from the previous sample at every sample it returns False, and
\* does so when 2 * checks samples have been taken.
C12_ConstantAndChanging ==
    call.checks > 0 =>
       /\ ConstantNonZero(call.seen) =>
             /\ call.ret # "false"
             /\ Len(call.seen) <= call.checks + 1
             /\ Len(call.seen) = call.checks + 1 => call.ret = "true"
             /\ call.sleeps <= call.checks
       /\ EverChanging(call.seen) =>
             /\ call.ret # "true"
             /\ call.ret = "false" <=> Len(call.seen) = 2 * call.checks

\* C12 witness: checks = 3, a constant size, True after three sleeps
C12_Witness ==
    /\ call.checks = checks
    /\ ConstantNonZero(call.seen)
    /\ call.ret = "true"
    /\ call.sleeps = checks

\* C18: a call whose samples are non-zero and change once, being constant
\* before and after the change, returns True.
C18_OneFluctuationTolerated ==
    (call.ret # "none" /\ OneChange(call.seen)) => call.ret = "true"

====
